---- MODULE Spec2Model ----
(***************************************************************************)
(* Model of the AirwaySegmentation scripted module                         *)
(* (AirwaySegmentation/AirwaySegmentation.py): the widget's parameter-node *)
(* synchronisation, the Apply handler and AirwaySegmentationLogic.process. *)
(***************************************************************************)
EXTENDS Integers, Sequences, FiniteSets, TLC

(* ---------------------------- bounds ----------------------------------- *)
\* segmentation nodes that may exist in the scene at once
MaxSegNodes == 2
\* label-map nodes that may exist in the scene at once
MaxLabelMaps == 1
\* segments a segmentation may hold before process is called on it
MaxSegments == 1
\* handler invocations after which a chain of nested handlers is cut off
HandlerFuel == 16

(* ---------------------------- nodes ------------------------------------ *)
\* Python's None, as a node
None == <<"None", 0>>
\* the data the user can load: a CT volume and a markups node
Volumes == {<<"vtkMRMLScalarVolumeNode", i>> : i \in {1}}
Seeds == {<<"vtkMRMLMarkupsFiducialNode", i>> : i \in {1}}
SegNodes == {<<"vtkMRMLSegmentationNode", i>> : i \in 1..MaxSegNodes}
LabelNodes == {<<"vtkMRMLLabelMapVolumeNode", i>> : i \in 1..MaxLabelMaps}
CliNode == <<"vtkMRMLCommandLineModuleNode", 1>>

\* the node references the widget reads or writes on the parameter node
Roles == {"InputVolume", "InputSeed", "OutputSegmentation", "OutputVolume"}
NoRefs == [r \in Roles |-> None]

Range(s) == {s[i] : i \in 1..Len(s)}

(* ---------------------------- DICOM ------------------------------------ *)
\* GetAttribute returns None when the attribute is not set
NoAttribute == <<"None">>
\* values of the DICOM.instanceUIDs attribute: a string of UIDs joined by
\* blanks (one character per position)
AttributeValues ==
  { NoAttribute, <<>>, <<"a">>, <<"b">>, <<"a", "b">>,
    <<"a", " ", "b">>, <<"b", " ", "a">> }

\* str.split(): the maximal runs of non-blank characters
RECURSIVE SplitFrom(_, _, _)
SplitFrom(s, i, cur) ==
  IF i > Len(s)
    THEN IF cur = <<>> THEN <<>> ELSE <<cur>>
    ELSE IF s[i] = " "
      THEN (IF cur = <<>> THEN <<>> ELSE <<cur>>) \o SplitFrom(s, i + 1, <<>>)
      ELSE SplitFrom(s, i + 1, Append(cur, s[i]))
Split(s) == SplitFrom(s, 1, <<>>)

\* slicer.dicomDatabase: fileValue(fileForInstance(uid), '0018,1210'); the
\* empty string when the instance is not in the database or has no such tag
DicomFileValue(uid) ==
  IF uid = <<"a">> THEN "B30f" ELSE ""

ConvolutionKernel_lastUID(instUIDs) ==
  IF instUIDs # NoAttribute /\ instUIDs # <<>>
    THEN DicomFileValue(Split(instUIDs)[Len(Split(instUIDs))])
    ELSE "None"

\* convolutionKernelFromVolumeNode, on the volume's DICOM.instanceUIDs
\* attribute; "None" and "" are both false in a Python condition
ConvolutionKernel(instUIDs) ==
  IF instUIDs # NoAttribute /\ instUIDs # <<>>
    THEN DicomFileValue(Split(instUIDs)[1])
    ELSE "None"

Falsy(str) == str = "None" \/ str = ""

(* ---------------------------- state ------------------------------------ *)
VARIABLES
  scene,          \* slicer.mrmlScene: nodes, segments, parameter node references
  widget,         \* AirwaySegmentationWidget: fields, selectors, Apply button
  instanceUIDs,   \* DICOM.instanceUIDs attribute of each volume
  dontShowAgain,  \* setting AirwaySegmentation/DontShowDICOMImageExpectedWarning
  pc,             \* where onApplyButton is: "idle" or "processEvents"
  inputVolume,    \* onApplyButton's local inputVolume while it is running
  sync,           \* history: handler invocations of the last trigger
  call,           \* history: the last call of process
  apply,          \* history: the last Apply click
  last            \* history: the last user or script event

vars == <<scene, widget, instanceUIDs, dontShowAgain, pc, inputVolume,
          sync, call, apply, last>>

SceneNodes(sc) ==
  Range(sc.vols) \cup Range(sc.seeds) \cup sc.segs \cup sc.labels \cup sc.clis

\* vtkMRMLNode::GetNodeReference: the referenced node when it is in the scene
GetNodeReference(sc, role) ==
  IF sc.refs[role] \in SceneNodes(sc) THEN sc.refs[role] ELSE None

\* vtkMRMLScene::GetFirstNodeByClass on the nodes of one class, in scene order
GetFirstNodeByClass(nodes) == IF nodes = <<>> THEN None ELSE nodes[1]

\* the selectors whose currentNodeChanged signal setup connects
ConnectedSelectors == {"inputVolumeSelector", "inputSeedSelector"}
Selectors == ConnectedSelectors \cup {"outputSegmentationSelector"}

\* a handler is entered: count it; the chain is cut when the fuel is used up
Enter(st) == [st EXCEPT !.sync.calls = @ + 1]
OutOfFuel(st) == st.sync.calls >= HandlerFuel

ParameterNodeFromGUISkips_noFlag(st) == ~st.w.parameterNode

\* updateParameterNodeFromGUI's early return
ParameterNodeFromGUISkips(st) ==
  ~st.w.parameterNode \/ st.w.updatingGUI

\* updateGUIFromParameterNode's early return
GUIFromParameterNodeSkips(st) ==
  ~st.w.parameterNode \/ st.w.updatingGUI

\* the references updateParameterNodeFromGUI writes from the selectors
ReferencesFromGUI(st) ==
  [st.sc.refs EXCEPT
     !["InputVolume"] = st.w.sel["inputVolumeSelector"],
     !["InputSeed"] = st.w.sel["inputSeedSelector"],
     !["OutputVolume"] = st.w.sel["outputSegmentationSelector"]]

\* the role updateGUIFromParameterNode reads for a selector
RoleRead(selector) ==
  IF selector = "inputVolumeSelector" THEN "InputVolume"
  ELSE IF selector = "inputSeedSelector" THEN "InputSeed"
  ELSE "OutputSegmentation"

RECURSIVE updateGUIFromParameterNode(_)
RECURSIVE updateParameterNodeFromGUI(_)

\* the parameter node's ModifiedEvent: the observer runs when one is set
InvokeModified(st) ==
  IF st.w.observing THEN updateGUIFromParameterNode(st) ELSE st

\* SetNodeReferenceID on the parameter node, by the widget or by a script
SetNodeReferenceID(st, role, node) ==
  IF st.sc.refs[role] = node THEN st
  ELSE InvokeModified([st EXCEPT !.sc.refs[role] = node])

\* qMRMLNodeComboBox::setCurrentNode: currentNodeChanged is emitted when the
\* current node changes, and runs the slot connected to it
setCurrentNode(st, selector, node) ==
  IF st.w.sel[selector] = node THEN st
  ELSE IF selector \in ConnectedSelectors
    THEN updateParameterNodeFromGUI([st EXCEPT !.w.sel[selector] = node])
    ELSE [st EXCEPT !.w.sel[selector] = node]

\* StartModify ... EndModify: the references are set in one batch, and one
\* ModifiedEvent follows when any of them changed
EndModify(st, new) ==
  IF new = st.sc.refs THEN st
  ELSE InvokeModified(
         [st EXCEPT !.sc.refs = new,
                    !.sync.duringRefresh = @ \/ st.w.updatingGUI])

\* updateParameterNodeFromGUI, once entered
WriteReferences(st) ==
  IF ParameterNodeFromGUISkips(st) \/ OutOfFuel(st)
    THEN [st EXCEPT !.sync.skipped = @ \/ st.w.updatingGUI]
    ELSE EndModify(st, ReferencesFromGUI(st))

updateParameterNodeFromGUI(st) == WriteReferences(Enter(st))

\* the Apply button is enabled when both inputs are set on the parameter node
ButtonState(sc) ==
  GetNodeReference(sc, "InputVolume") # None
    /\ GetNodeReference(sc, "InputSeed") # None

\* a selector is set to the node the parameter node references
ShowReference(st, selector) ==
  setCurrentNode(st, selector, GetNodeReference(st.sc, RoleRead(selector)))

BeginUpdate(st) == [st EXCEPT !.w.updatingGUI = TRUE]

\* the button state is set, then all the GUI updates are done
EndUpdate(st) ==
  [st EXCEPT !.w.applyEnabled = ButtonState(st.sc),
             !.w.updatingGUI = FALSE]

\* updateGUIFromParameterNode, once entered
Refresh(st) ==
  IF GUIFromParameterNodeSkips(st) \/ OutOfFuel(st) THEN st
  ELSE EndUpdate(
         ShowReference(
           ShowReference(
             ShowReference(BeginUpdate(st), "inputVolumeSelector"),
             "inputSeedSelector"),
           "outputSegmentationSelector"))

updateGUIFromParameterNode(st) == Refresh(Enter(st))

\* setParameterNode(node): has = (node is not None)
setParameterNode(st, has) ==
  updateGUIFromParameterNode(
    [st EXCEPT !.w.parameterNode = has, !.w.observing = has])

\* the first node of the class that a role of the parameter node refers to
FirstNode(sc, role) ==
  GetFirstNodeByClass(IF role = "InputVolume" THEN sc.vols ELSE sc.seeds)

\* a default input is selected when none is referenced yet
SelectDefault(st, role) ==
  IF GetNodeReference(st.sc, role) = None /\ FirstNode(st.sc, role) # None
    THEN SetNodeReferenceID(st, role, FirstNode(st.sc, role))
    ELSE st

\* initializeParameterNode: observe the scene's parameter node and select the
\* first volume and the first markups node
initializeParameterNode(st) ==
  SelectDefault(SelectDefault(setParameterNode(st, TRUE), "InputVolume"),
                "InputSeed")

(* ---------------------------- process ---------------------------------- *)
\* labelValue = 170: trachea in GenericAnatomyColors
labelValue == 170
\* what the external executable can leave in the label map it is given
CliOutcomes == {"region", "noRegion", "failed"}

NoParams == [none |-> TRUE]
NoCall ==
  [kind |-> "none", vol |-> None, seed |-> None, seg |-> None, runs |-> 0,
   params |-> NoParams, labelCreated |-> FALSE, labelInScene |-> FALSE,
   sameNodes |-> TRUE, sameSegments |-> TRUE, segmentCount |-> 0,
   outcome |-> "none", segmentsBefore |-> 0]

InputsInvalid_noSegmentation(vol, seed, seg) == vol = None \/ seed = None

\* process's check of its three inputs
InputsInvalid(vol, seed, seg) == vol = None \/ seed = None \/ seg = None

\* the kernel process passes on: STANDARD when it cannot be determined
KernelOrStandard(kernel) == IF Falsy(kernel) THEN "STANDARD" ELSE kernel

\* AddNewNodeByClass: a node whose ID no node of the scene has
NewNode(universe, used) ==
  CHOOSE n \in universe \ used :
    \A m \in universe \ used : n[2] <= m[2]

RemoveAllSegments_keep(segs) == segs

\* vtkSegmentation::RemoveAllSegments
RemoveAllSegments(segs) == <<>>

\* ImportLabelmapToSegmentationNode: one segment per label value of the map
ImportLabelmap(segs, labelData) == segs \o labelData

\* slicer.cli.run(..., wait_for_completion = True) on the label map: the
\* executable writes the region with the label value it is given, or nothing
CliRun(params, outcome) ==
  IF outcome = "region" THEN <<params.labelValue>> ELSE <<>>

\* RemoveNode(tmpLabelVolume) is the last step: not reached by an exception
RemoveTmpLabelVolume(labels, tmp, raised) ==
  IF raised THEN labels ELSE labels \ {tmp}

\* AirwaySegmentationLogic.process; the result is the scene and the record
\* of the call
process(sc, uids, vol, seed, seg, outcome) ==
  IF InputsInvalid(vol, seed, seg)
    THEN [sc |-> sc,
          call |-> [NoCall EXCEPT !.kind = "invalid", !.vol = vol,
                                  !.seed = seed, !.seg = seg]]
    ELSE
      LET convolutionKernel == KernelOrStandard(ConvolutionKernel(uids[vol]))
          tmpLabelVolume == NewNode(LabelNodes, sc.labels)
          sc1 == [sc EXCEPT !.labels = @ \cup {tmpLabelVolume}]
          parameters ==
            [inputVolume |-> vol,
             reconstructionKernelType |-> convolutionKernel,
             label |-> tmpLabelVolume,
             seed |-> seed,
             labelValue |-> labelValue]
          \* slicer.cli.run adds the CLI module node and runs the executable
          sc2 == [sc1 EXCEPT !.clis = @ \cup {CliNode}]
          labelData == CliRun(parameters, outcome)
          sc3 == [sc2 EXCEPT !.clis = @ \ {CliNode}]
          \* None has no GetSegmentation
          noSegmentation == seg = None
          newSegments ==
            IF noSegmentation THEN <<>>
            ELSE ImportLabelmap(RemoveAllSegments(sc3.segments[seg]), labelData)
          sc4 == IF noSegmentation THEN sc3
                 ELSE [sc3 EXCEPT !.segments[seg] = newSegments]
          \* GetSegment of a missing first segment is None: SetTag raises
          raised == noSegmentation \/ newSegments = <<>>
          sc5 == [sc4 EXCEPT
                    !.labels = RemoveTmpLabelVolume(@, tmpLabelVolume, raised)]
      IN [sc |-> sc5,
          call |->
            [kind |-> IF raised THEN "raised" ELSE "returned",
             vol |-> vol, seed |-> seed, seg |-> seg,
             runs |-> 1,
             params |-> parameters,
             labelCreated |->
               tmpLabelVolume \notin SceneNodes(sc)
                 /\ tmpLabelVolume \in SceneNodes(sc1),
             labelInScene |-> tmpLabelVolume \in SceneNodes(sc2),
             sameNodes |-> SceneNodes(sc5) = SceneNodes(sc),
             sameSegments |-> sc5.segments = sc.segments,
             segmentCount |-> Len(newSegments),
             outcome |-> outcome,
             segmentsBefore |->
               IF noSegmentation THEN 0 ELSE Len(sc.segments[seg])]]

(* ---------------------------- actions ---------------------------------- *)
\* The history variables sync, call and last describe the step that led to
\* the current state, and apply.result/confirm/kernelKnown the Apply click
\* that is running or has just ended; steps they do not describe reset them.
\* calls: handlers entered; duringRefresh: the parameter node was modified
\* while updateGUIFromParameterNode was running; skipped: a selector's signal
\* reached updateParameterNodeFromGUI while it was running
NoSync == [calls |-> 0, duringRefresh |-> FALSE, skipped |-> FALSE]
Quiet == [exhausted |-> FALSE, duringRefresh |-> FALSE, skipped |-> FALSE]
\* what is kept of a chain of handlers once it has ended
Summary(s) ==
  [exhausted |-> s.calls >= HandlerFuel, duringRefresh |-> s.duringRefresh,
   skipped |-> s.skipped]
\* result, confirm, kernelKnown, moved: the last Apply click; target, added,
\* outputTouched: the Apply clicks since the scene was opened, kept until the
\* output selector or the OutputSegmentation reference is set from outside
NoApply ==
  [result |-> "none", kernelKnown |-> FALSE, confirm |-> "none",
   moved |-> FALSE, target |-> None, added |-> 0, outputTouched |-> FALSE]
NoEvent == [selector |-> "none", node |-> None]

\* the record of the Apply click, once a later step has been taken
Past(a) ==
  IF pc = "idle"
    THEN [a EXCEPT !.result = "none", !.confirm = "none",
                   !.kernelKnown = FALSE, !.moved = FALSE]
    ELSE a

EmptyScene ==
  [vols |-> <<>>, seeds |-> <<>>, segs |-> {}, labels |-> {}, clis |-> {},
   segments |-> [s \in SegNodes |-> <<>>], refs |-> NoRefs]

\* AirwaySegmentationWidget.__init__
Constructed ==
  [parameterNode |-> FALSE, observing |-> FALSE, updatingGUI |-> FALSE,
   sel |-> [s \in Selectors |-> None], applyEnabled |-> FALSE,
   isEntered |-> FALSE]

\* the state a handler starts from: a new trigger, no handler counted yet
St == [sc |-> scene, w |-> widget, sync |-> NoSync]
\* the state a chain of handlers ends in
Commit(st) ==
  scene' = st.sc /\ widget' = st.w /\ sync' = Summary(st.sync)
\* setup(), in the empty scene the application starts with
AfterSetup(st) == scene = st.sc /\ widget = st.w

\* the nodes a selector offers: those of its class that are in the scene
Offered(selector) ==
  IF selector = "inputVolumeSelector" THEN Range(scene.vols)
  ELSE IF selector = "inputSeedSelector" THEN Range(scene.seeds)
  ELSE scene.segs

\* the data of the widget's runs: a volume loaded from DICOM that has a
\* Convolution Kernel, or a volume that was not loaded from DICOM
LoadedData == {[v \in Volumes |-> a] : a \in {<<"a", " ", "b">>, NoAttribute}}

\* setup(), in the empty scene the application starts with
Init ==
  /\ AfterSetup(initializeParameterNode(
                  [sc |-> EmptyScene, w |-> Constructed, sync |-> NoSync]))
  /\ sync = Quiet
  /\ instanceUIDs \in LoadedData
  /\ dontShowAgain = FALSE
  /\ pc = "idle"
  /\ inputVolume = None
  /\ call = NoCall
  /\ apply = NoApply
  /\ last = NoEvent

\* the user loads a volume or places a markups node
LoadData(n) ==
  /\ pc = "idle"
  /\ n \notin SceneNodes(scene)
  /\ scene' = IF n \in Volumes
                THEN [scene EXCEPT !.vols = Append(@, n)]
                ELSE [scene EXCEPT !.seeds = Append(@, n)]
  /\ sync' = Quiet /\ call' = NoCall /\ last' = NoEvent
  /\ apply' = Past(apply)
  /\ UNCHANGED <<widget, instanceUIDs, dontShowAgain, pc, inputVolume>>

\* a segmentation node is added to the scene outside this module
AddSegmentation ==
  /\ pc = "idle"
  /\ scene.segs # SegNodes
  /\ scene' = [scene EXCEPT !.segs = @ \cup {NewNode(SegNodes, scene.segs)}]
  /\ sync' = Quiet /\ call' = NoCall /\ last' = NoEvent
  /\ apply' = Past(apply)
  /\ UNCHANGED <<widget, instanceUIDs, dontShowAgain, pc, inputVolume>>

\* a segment is added to a segmentation outside this module
AddSegment(seg) ==
  /\ pc = "idle"
  /\ seg \in scene.segs
  /\ Len(scene.segments[seg]) < MaxSegments
  /\ scene' = [scene EXCEPT !.segments[seg] = Append(@, 1)]
  /\ sync' = Quiet /\ call' = NoCall /\ last' = NoEvent
  /\ apply' = Past(apply)
  /\ UNCHANGED <<widget, instanceUIDs, dontShowAgain, pc, inputVolume>>

\* the user changes a selector's current node
UserSelect(selector, node) ==
  /\ widget.isEntered
  /\ node \in Offered(selector) \cup {None}
  /\ node # widget.sel[selector]
  /\ Commit(setCurrentNode(St, selector, node))
  /\ last' = [selector |-> selector, node |-> node]
  /\ apply' = IF selector = "outputSegmentationSelector"
                THEN [Past(apply) EXCEPT !.outputTouched = TRUE,
                                         !.target = None, !.added = 0]
                ELSE Past(apply)
  /\ call' = NoCall
  /\ UNCHANGED <<instanceUIDs, dontShowAgain, pc, inputVolume>>

\* a script or another module sets the reference of the parameter node that
\* a selector shows
ScriptSetReference(selector, node) ==
  /\ widget.parameterNode
  /\ node \in Offered(selector) \cup {None}
  /\ node # scene.refs[RoleRead(selector)]
  /\ Commit(SetNodeReferenceID(St, RoleRead(selector), node))
  /\ last' = NoEvent
  /\ apply' = IF selector = "outputSegmentationSelector"
                THEN [Past(apply) EXCEPT !.outputTouched = TRUE,
                                         !.target = None, !.added = 0]
                ELSE Past(apply)
  /\ call' = NoCall
  /\ UNCHANGED <<instanceUIDs, dontShowAgain, pc, inputVolume>>

\* enter(): the user opens the module
EnterModule ==
  /\ pc = "idle"
  /\ ~widget.isEntered
  /\ Commit(initializeParameterNode([St EXCEPT !.w.isEntered = TRUE]))
  /\ call' = NoCall /\ last' = NoEvent
  /\ apply' = Past(apply)
  /\ UNCHANGED <<instanceUIDs, dontShowAgain, pc, inputVolume>>

\* exit(): the user opens a different module
ExitModule ==
  /\ pc = "idle"
  /\ widget.isEntered
  /\ widget' = [widget EXCEPT !.isEntered = FALSE, !.observing = FALSE]
  /\ sync' = Quiet /\ call' = NoCall /\ last' = NoEvent
  /\ apply' = Past(apply)
  /\ UNCHANGED <<scene, instanceUIDs, dontShowAgain, pc, inputVolume>>

\* onSceneStartClose: the parameter node will be reset
onSceneStartClose(st) == setParameterNode(st, FALSE)

\* the nodes are removed from the scene, and with them every selector's
\* current node
SceneCleared(st) ==
  setCurrentNode(
    setCurrentNode(
      setCurrentNode([st EXCEPT !.sc = EmptyScene],
                     "inputVolumeSelector", None),
      "inputSeedSelector", None),
    "outputSegmentationSelector", None)

\* onSceneEndClose: a new parameter node when the module is shown
onSceneEndClose(st) ==
  IF st.w.isEntered THEN initializeParameterNode(st) ELSE st

\* the scene is closed
SceneClose ==
  /\ pc = "idle"
  /\ Commit(onSceneEndClose(SceneCleared(onSceneStartClose(St))))
  /\ call' = NoCall /\ last' = NoEvent
  /\ apply' = NoApply
  /\ UNCHANGED <<instanceUIDs, dontShowAgain, pc, inputVolume>>

\* a script or a test calls logic.process
CallProcess(vol, seed, seg, outcome) ==
  /\ pc = "idle"
  /\ vol \in Range(scene.vols) \cup {None}
  /\ seed \in Range(scene.seeds) \cup {None}
  /\ seg \in scene.segs \cup {None}
  /\ scene.labels # LabelNodes
  /\ LET r == process(scene, instanceUIDs, vol, seed, seg, outcome)
     IN scene' = r.sc /\ call' = r.call
  /\ sync' = Quiet /\ last' = NoEvent
  /\ apply' = Past(apply)
  /\ UNCHANGED <<widget, instanceUIDs, dontShowAgain, pc, inputVolume>>

(* ---------------------------- Apply ------------------------------------ *)
\* what the user can answer when the confirmation dialog is shown
Answers == {"ok", "okDontShowAgain", "cancel"}

\* slicer.util.confirmOkCancelDisplay with dontShowAgainSettingsKey: not
\* shown, and accepted, once the setting is stored
confirmOkCancelDisplay(suppressed, answer) == suppressed \/ answer # "cancel"

ApplyReturnsEarly_never(kernel, confirmed) == FALSE

\* onApplyButton returns False: the kernel is unknown and the user cancelled
ApplyReturnsEarly(kernel, confirmed) == Falsy(kernel) /\ ~confirmed

\* onApplyButton up to slicer.app.processEvents()
ApplyClick(answer) ==
  /\ pc = "idle"
  /\ widget.isEntered
  /\ widget.applyEnabled
  /\ scene.segs # SegNodes
  /\ scene.labels # LabelNodes
  /\ sync' = Quiet /\ call' = NoCall /\ last' = NoEvent
  /\ LET vol == widget.sel["inputVolumeSelector"] IN
     IF vol = None
       THEN \* None has no GetAttribute: the handler ends with an exception
            /\ apply' = [Past(apply) EXCEPT !.result = "error"]
            /\ UNCHANGED <<scene, widget, instanceUIDs, dontShowAgain, pc,
                           inputVolume>>
       ELSE
         LET convolutionKernel == ConvolutionKernel(instanceUIDs[vol])
             confirmed == confirmOkCancelDisplay(dontShowAgain, answer)
             way == IF ~Falsy(convolutionKernel) THEN "notAsked"
                    ELSE IF dontShowAgain THEN "suppressed" ELSE answer
         IN IF ApplyReturnsEarly(convolutionKernel, confirmed)
              THEN /\ apply' = [apply EXCEPT !.result = "cancelled",
                                             !.confirm = way,
                                             !.kernelKnown = FALSE]
                   /\ UNCHANGED <<scene, widget, instanceUIDs, dontShowAgain,
                                  pc, inputVolume>>
              ELSE /\ apply' = [apply EXCEPT
                                  !.result = "running",
                                  !.confirm = way,
                                  !.kernelKnown = ~Falsy(convolutionKernel)]
                   /\ dontShowAgain' =
                        (dontShowAgain \/ way = "okDontShowAgain")
                   /\ widget' = [widget EXCEPT !.applyEnabled = FALSE]
                   /\ pc' = "processEvents"
                   /\ inputVolume' = vol
                   /\ UNCHANGED <<scene, instanceUIDs>>

\* slicer.util.tryWithErrorDisplay shows the error of a failed block; the
\* exception then either leaves onApplyButton or is handled by the scope
ErrorLeavesScope(failed, propagates) == failed /\ propagates

\* onApplyButton after slicer.app.processEvents(): the block under
\* tryWithErrorDisplay, then the Apply button is enabled when the handler
\* gets to its last statement
ApplyRun(outcome, show3DOk, propagates) ==
  /\ pc = "processEvents"
  /\ LET create == widget.sel["outputSegmentationSelector"] = None
         segmentationNode ==
           IF create THEN NewNode(SegNodes, scene.segs)
           ELSE widget.sel["outputSegmentationSelector"]
         s1 == IF create
                 THEN setCurrentNode(
                        [St EXCEPT !.sc.segs = @ \cup {segmentationNode}],
                        "outputSegmentationSelector", segmentationNode)
                 ELSE St
         r == process(s1.sc, instanceUIDs, inputVolume,
                      s1.w.sel["inputSeedSelector"], segmentationNode, outcome)
         result == IF r.call.kind # "returned" THEN "processFailed"
                   ELSE IF show3DOk THEN "done" ELSE "show3DFailed"
     IN /\ scene' = r.sc
        /\ call' = r.call
        /\ widget' = IF ErrorLeavesScope(result # "done", propagates)
                       THEN s1.w
                       ELSE [s1.w EXCEPT !.applyEnabled = TRUE]
        /\ sync' = Summary(s1.sync)
        /\ apply' =
             IF apply.outputTouched THEN [apply EXCEPT !.result = result]
             ELSE [apply EXCEPT
                     !.result = result,
                     !.moved = (apply.target # None
                                  /\ apply.target # segmentationNode),
                     !.target = segmentationNode,
                     !.added = IF create THEN @ + 1 ELSE @]
  /\ pc' = "idle"
  /\ inputVolume' = None
  /\ last' = NoEvent
  /\ UNCHANGED <<instanceUIDs, dontShowAgain>>

\* the module used through its widget. slicer.app.processEvents() in
\* onApplyButton delivers the events that are pending: the selector changes
\* and the parameter node modifications can happen while pc = "processEvents"
Next ==
  \/ \E n \in Volumes \cup Seeds : LoadData(n)
  \/ AddSegmentation
  \/ \E selector \in Selectors :
       \E node \in Volumes \cup Seeds \cup SegNodes \cup {None} :
         UserSelect(selector, node)
  \/ \E selector \in Selectors :
       \E node \in Volumes \cup Seeds \cup SegNodes \cup {None} :
         ScriptSetReference(selector, node)
  \/ EnterModule
  \/ ExitModule
  \/ SceneClose
  \/ \E answer \in Answers : ApplyClick(answer)
  \/ \E outcome \in CliOutcomes, show3DOk \in BOOLEAN, propagates \in BOOLEAN :
       ApplyRun(outcome, show3DOk, propagates)

Spec == Init /\ [][Next]_vars

\* the logic used without the widget, as the test does, on any data
LogicInit ==
  /\ AfterSetup(initializeParameterNode(
                  [sc |-> EmptyScene, w |-> Constructed, sync |-> NoSync]))
  /\ sync = Quiet
  /\ instanceUIDs \in [Volumes -> AttributeValues]
  /\ dontShowAgain = FALSE
  /\ pc = "idle"
  /\ inputVolume = None
  /\ call = NoCall
  /\ apply = NoApply
  /\ last = NoEvent

LogicNext ==
  \/ \E n \in Volumes \cup Seeds : LoadData(n)
  \/ AddSegmentation
  \/ \E seg \in SegNodes : AddSegment(seg)
  \/ \E vol \in Volumes \cup {None}, seed \in Seeds \cup {None},
        seg \in SegNodes \cup {None}, outcome \in CliOutcomes :
       CallProcess(vol, seed, seg, outcome)

LogicSpec == LogicInit /\ [][LogicNext]_vars

(* ---------------------------- claims ----------------------------------- *)
Finished == {"done", "show3DFailed", "processFailed"}

\* C1: after the user changes a selector's current node (a parameter node is
\* set, no GUI refresh is in progress), the reference that
\* updateGUIFromParameterNode reads for that selector refers to the selected
\* node, and a refresh from the parameter node leaves the selector showing it.
C1_SelectionReachesParameterNode ==
  (last.selector \in Selectors /\ widget.parameterNode)
    => /\ GetNodeReference(scene, RoleRead(last.selector)) = last.node
       /\ updateGUIFromParameterNode(St).w.sel[last.selector] = last.node

\* C1, the case of the output selector: the user has selected a segmentation
C1_OutputSelected ==
  /\ last.selector = "outputSegmentationSelector"
  /\ last.node # None
  /\ widget.parameterNode

\* the first UID of an attribute value: what precedes the first blank
FirstUID(a) ==
  IF \E i \in 1..Len(a) : a[i] = " "
    THEN SubSeq(a, 1, (CHOOSE i \in 1..Len(a) :
                         a[i] = " " /\ \A j \in 1..(i - 1) : a[j] # " ") - 1)
    ELSE a

\* the kernel the claim expects for an attribute value
ExpectedKernel(a) ==
  IF a = NoAttribute \/ a = <<>> \/ DicomFileValue(FirstUID(a)) = ""
    THEN "STANDARD"
    ELSE DicomFileValue(FirstUID(a))

C3_MissingInputRaises ==
  (call.kind # "none"
     /\ (call.vol = None \/ call.seed = None \/ call.seg = None))
    => /\ call.kind = "invalid"
       /\ call.runs = 0
       /\ call.params = NoParams
       /\ call.sameNodes
       /\ call.sameSegments

\* C3: process was called with a volume and a seed but no output segmentation
C3_CalledWithoutOutput ==
  /\ call.kind = "invalid"
  /\ call.vol # None /\ call.seed # None /\ call.seg = None

\* C4: when the executable has filled the label map with a region, process
\* returns normally and the output segmentation holds exactly one segment,
\* whatever it held before.
C4_ExactlyOneSegment ==
  (call.kind \in {"raised", "returned"} /\ call.outcome = "region")
    => /\ call.kind = "returned"
       /\ call.segmentCount = 1
       /\ Len(scene.segments[call.seg]) = 1

\* C4: process returned on a segmentation that already held a segment
C4_SegmentsReplaced ==
  /\ call.kind = "returned"
  /\ call.segmentsBefore > 0
  /\ Len(scene.segments[call.seg]) = 1

\* C5: when the kernel of the input volume cannot be determined, the
\* executable is invoked only after the confirmation was answered OK or was
\* suppressed by the setting; when the user cancels, no node is created, the
\* executable is not invoked, and the segments and the Apply button's state
\* are unchanged.
C5_FallbackConfirmed ==
  /\ []((call.runs = 1 /\ apply.result \in Finished
           /\ Falsy(ConvolutionKernel(instanceUIDs[call.vol])))
          => apply.confirm \in {"ok", "okDontShowAgain", "suppressed"})
  /\ [][(apply'.confirm = "cancel")
          => (scene' = scene /\ widget' = widget /\ pc' = "idle"
                /\ call'.runs = 0 /\ apply'.result = "cancelled")]_vars

\* C5: the user has cancelled the confirmation
C5_Cancelled ==
  /\ apply.result = "cancelled"
  /\ apply.confirm = "cancel"
  /\ widget.applyEnabled

\* C6: as long as the output selector is not set from outside, the widget adds
\* at most one segmentation node, and every Apply after the first writes into
\* the node the previous one used.
C6_OneOutputSegmentation ==
  ~apply.outputTouched => (apply.added <= 1 /\ ~apply.moved)

\* C6: Apply has created its output segmentation
C6_OutputCreated ==
  /\ ~apply.outputTouched
  /\ apply.added = 1
  /\ apply.result = "done"

\* C7: signals emitted while updateGUIFromParameterNode runs never modify the
\* parameter node, every trigger ends after finitely many handler
\* invocations, and the flag is False when no refresh is in progress.
C7_NoUpdateCycle ==
  /\ ~sync.duringRefresh
  /\ ~sync.exhausted
  /\ ~widget.updatingGUI

\* C7: a refresh has changed a selector, whose signal was ignored
C7_SignalDuringRefresh ==
  /\ sync.skipped
  /\ ~sync.duringRefresh

\* C8: once a call of process has ended after the input check, normally or
\* with an exception, the scene holds the nodes it held before the call.
C8_TemporaryNodesRemoved ==
  call.kind \in {"raised", "returned"} => call.sameNodes

\* C8: process has returned normally
C8_Returned ==
  /\ call.kind = "returned"
  /\ call.sameNodes

\* C9: the Apply button is disabled while processing runs, is enabled when
\* onApplyButton has finished, with or without a failure, and is not left
\* disabled with both inputs selected.
C9_ApplyButtonCycle ==
  /\ pc = "processEvents" => ~widget.applyEnabled
  /\ apply.result \in Finished => widget.applyEnabled
  /\ (pc = "idle" /\ widget.isEntered /\ widget.observing
        /\ widget.sel["inputVolumeSelector"] # None
        /\ widget.sel["inputSeedSelector"] # None)
       => widget.applyEnabled

\* C9: onApplyButton has finished after process failed
C9_FinishedAfterFailure ==
  /\ apply.result = "processFailed"
  /\ widget.applyEnabled

\* C10: in a quiescent state in which the widget observes its parameter
\* node, the Apply button is enabled exactly when the InputVolume and the
\* InputSeed references resolve to nodes.
C10_ButtonMatchesInputs ==
  (pc = "idle" /\ widget.isEntered /\ widget.parameterNode
     /\ widget.observing)
    => (widget.applyEnabled <=> ButtonState(scene))

\* C10: Apply has finished with both inputs referenced
C10_AppliedWithInputs ==
  /\ pc = "idle" /\ widget.isEntered /\ widget.observing
  /\ apply.result = "done"
  /\ ButtonState(scene)

====
